---- MODULE Spec2Model ----
(***************************************************************************)
(* Model of triage.component.architect.planner.Planner                     *)
(* (src/src/triage/component/architect/planner.py).                        *)
(*                                                                         *)
(* Python dicts are functions from string keys to values; lists are        *)
(* sequences; None is the string "None".  A call either returns a value    *)
(* or raises: an operator that can raise yields [exc, val].                *)
(* Matrix-set definitions live in a heap (address -> dict) so that the     *)
(* difference between annotating a copy and annotating the caller's        *)
(* object is visible.                                                      *)
(***************************************************************************)
EXTENDS Integers, Sequences, FiniteSets, TLC

VARIABLES planner, ctor_args, args, heap, before, updated_definitions,
          build_tasks, pc, i, c, j, matrix_set_clone, test_uuids, results,
          calls, meta_args, meta_result

vars == <<planner, ctor_args, args, heap, before, updated_definitions,
          build_tasks, pc, i, c, j, matrix_set_clone, test_uuids, results,
          calls, meta_args, meta_result>>

-----------------------------------------------------------------------------
(* Bounds *)

MaxSets == 2
MaxTests == 2
MaxCalls == 2

-----------------------------------------------------------------------------
(* Python values *)

None == "None"
NoException == "NoException"
KeyError == "KeyError"

EmptyDict == [k \in {} |-> None]

Return(v) == [exc |-> NoException, val |-> v]
Raise(e) == [exc |-> e, val |-> None]

\* d.get(k, default)
dict_get(d, k, default) == IF k \in DOMAIN d THEN d[k] ELSE default

\* d.update(e): the keys of e overwrite those of d
dict_update(d, e) ==
    [k \in (DOMAIN d) \cup (DOMAIN e) |-> IF k \in DOMAIN e THEN e[k] ELSE d[k]]

\* d[k] = v
dict_set(d, k, v) == [x \in (DOMAIN d) \cup {k} |-> IF x = k THEN v ELSE d[x]]

\* '_'.join(parts) for a non-empty list of strings
RECURSIVE join(_, _)
join(sep, parts) ==
    IF Len(parts) = 1 THEN parts[1]
    ELSE parts[1] \o sep \o join(sep, Tail(parts))

-----------------------------------------------------------------------------
(* Collaborators outside planner.py *)

\* state_table_generators.DEFAULT_ACTIVE_STATE
DEFAULT_ACTIVE_STATE == "active"

\* FeatureDictionary.names: the table names, in the dictionary's order.
\* A feature dictionary is a sequence of <<table, columns>> pairs.
names(feature_dictionary) ==
    [n \in 1..Len(feature_dictionary) |-> feature_dictionary[n][1]]

\* utils.feature_list: all columns of all tables, flattened in order
RECURSIVE feature_list(_)
feature_list(feature_dictionary) ==
    IF feature_dictionary = <<>> THEN <<>>
    ELSE feature_dictionary[1][2] \o feature_list(Tail(feature_dictionary))

\* The keys a metadata record can have, in sorted order
SortedKeys ==
    << "as_of_date_frequency", "as_of_times", "cohort_name", "end_time",
       "experiment", "feature_groups", "feature_names", "feature_start_time",
       "first_as_of_time", "indices", "label_name", "label_timespan",
       "label_type", "matrix_id", "matrix_info_end_time", "matrix_type",
       "state", "test_as_of_date_frequency", "test_label_timespan",
       "training_as_of_date_frequency", "training_label_timespan" >>

IsKeyOf(d, k) == k \in DOMAIN d

\* metta.generate_uuid: a deterministic function of the record's content.
\* The record is serialised with its keys in sorted order; the identifier
\* stands for the digest of that serialisation, taken to be collision free.
generate_uuid(metadata) ==
    LET present == SelectSeq(SortedKeys, LAMBDA k : IsKeyOf(metadata, k))
    IN  [n \in 1..Len(present) |-> <<present[n], metadata[present[n]]>>]

-----------------------------------------------------------------------------
(* Planner.__init__ *)

Planner_no_default_state(feature_start_time, label_names, label_types, states, matrix_directory, user_metadata, cohort_name) ==
    [feature_start_time |-> feature_start_time,
     label_names |-> label_names,
     label_types |-> label_types,
     cohort_name |-> cohort_name,
     states |-> states,
     matrix_directory |-> matrix_directory,
     user_metadata |-> user_metadata]

Planner(feature_start_time, label_names, label_types, states, matrix_directory, user_metadata, cohort_name) ==
    [feature_start_time |-> feature_start_time,
     label_names |-> label_names,
     label_types |-> label_types,
     cohort_name |-> cohort_name,
     states |-> IF states # <<>> THEN states ELSE <<DEFAULT_ACTIVE_STATE>>,
     matrix_directory |-> matrix_directory,
     user_metadata |-> user_metadata]

-----------------------------------------------------------------------------
(* Planner._make_metadata *)

\* the as_of_date_frequency entry of the computed fields (lines 81-84); the
\* code does not consult matrix_type here
as_of_date_frequency_by_role(matrix_definition, matrix_type) ==
    IF matrix_type = "train"
    THEN dict_get(matrix_definition, "training_as_of_date_frequency", None)
    ELSE dict_get(matrix_definition, "test_as_of_date_frequency", None)

as_of_date_frequency(matrix_definition, matrix_type) ==
    dict_get(matrix_definition, "training_as_of_date_frequency",
             dict_get(matrix_definition, "test_as_of_date_frequency", None))

\* the label_timespan entry of the computed fields (lines 94-97)
label_timespan_train_first(matrix_definition) ==
    dict_get(matrix_definition, "training_label_timespan",
             dict_get(matrix_definition, "test_label_timespan", "0 days"))

label_timespan(matrix_definition) ==
    dict_get(matrix_definition, "test_label_timespan",
             dict_get(matrix_definition, "training_label_timespan", "0 days"))

\* the dict literal of lines 76-103, given that both subscripted keys exist
computed_fields(self, matrix_definition, feature_dictionary, label_name, label_type, state, matrix_type) ==
    LET matrix_id == join("_", << label_name,
                                  label_type,
                                  matrix_definition["first_as_of_time"],
                                  matrix_definition["matrix_info_end_time"] >>)
    IN  [feature_start_time |-> self.feature_start_time,
         end_time |-> matrix_definition["matrix_info_end_time"],
         as_of_date_frequency |->
             as_of_date_frequency(matrix_definition, matrix_type),
         indices |-> <<"entity_id", "as_of_date">>,
         feature_names |-> feature_list(feature_dictionary),
         feature_groups |-> names(feature_dictionary),
         label_name |-> label_name,
         label_type |-> label_type,
         label_timespan |-> label_timespan(matrix_definition),
         cohort_name |-> self.cohort_name,
         state |-> state,
         matrix_id |-> matrix_id,
         matrix_type |-> matrix_type]

\* the overlays of lines 104-105
overlay_user_first(computed, matrix_definition, user_metadata) ==
    dict_update(dict_update(computed, user_metadata), matrix_definition)

overlay(computed, matrix_definition, user_metadata) ==
    dict_update(dict_update(computed, matrix_definition), user_metadata)

_make_metadata_lenient(self, matrix_definition, feature_dictionary, label_name, label_type, state, matrix_type) ==
    LET filled == dict_update(
            [k \in {"first_as_of_time", "matrix_info_end_time"} |-> None],
            matrix_definition)
    IN  Return(overlay(
            computed_fields(self, filled, feature_dictionary, label_name,
                            label_type, state, matrix_type),
            matrix_definition, self.user_metadata))

_make_metadata(self, matrix_definition, feature_dictionary, label_name, label_type, state, matrix_type) ==
    IF "first_as_of_time" \notin DOMAIN matrix_definition
        THEN Raise(KeyError)
    ELSE IF "matrix_info_end_time" \notin DOMAIN matrix_definition
        THEN Raise(KeyError)
    ELSE Return(overlay(
            computed_fields(self, matrix_definition, feature_dictionary,
                            label_name, label_type, state, matrix_type),
            matrix_definition, self.user_metadata))

-----------------------------------------------------------------------------
(* Planner._generate_build_task *)

_generate_build_task(self, matrix_metadata, matrix_uuid, train_matrix, feature_dictionary) ==
    IF "as_of_times" \notin DOMAIN train_matrix THEN Raise(KeyError)
    ELSE IF {"label_name", "label_type", "matrix_type"}
                \ DOMAIN matrix_metadata # {} THEN Raise(KeyError)
    ELSE Return(
        [as_of_times |-> train_matrix["as_of_times"],
         label_name |-> matrix_metadata["label_name"],
         label_type |-> matrix_metadata["label_type"],
         feature_dictionary |-> feature_dictionary,
         matrix_directory |-> self.matrix_directory,
         matrix_uuid |-> matrix_uuid,
         matrix_metadata |-> matrix_metadata,
         matrix_type |-> matrix_metadata["matrix_type"]])

-----------------------------------------------------------------------------
(* Planner.generate_plans: helpers *)

\* itertools.product(label_names, label_types, states, feature_dictionaries):
\* result = [[]]; for each pool: result = [x + [y] for x in result for y in pool]
RECURSIVE product_step(_, _)
product_step(result, pool) ==
    IF result = <<>> THEN <<>>
    ELSE [n \in 1..Len(pool) |-> Append(result[1], pool[n])]
             \o product_step(Tail(result), pool)

product_feature_dictionary_outermost(label_names, label_types, states, feature_dictionaries) ==
    LET r == product_step(product_step(product_step(product_step(
                 << <<>> >>, feature_dictionaries), label_names),
                 label_types), states)
    IN  [n \in 1..Len(r) |-> <<r[n][2], r[n][3], r[n][4], r[n][1]>>]

product(label_names, label_types, states, feature_dictionaries) ==
    product_step(product_step(product_step(product_step(
        << <<>> >>, label_names), label_types), states), feature_dictionaries)

\* list.append(x)
list_prepend(list, x) == <<x>> \o list

list_append(list, x) == Append(list, x)

\* copy.deepcopy(matrix_set): a new object with the same content
deepcopy_alias(h, address) == [address |-> address, heap |-> h]

deepcopy(h, address) ==
    LET new == Cardinality(DOMAIN h) + 1
    IN  [address |-> new, heap |-> h @@ (new :> h[address])]

\* lines 157-163 and 183-189: insert a build task unless the uuid is present
register_inverted(self, tasks, metadata, uuid, matrix, feature_dictionary) ==
    IF uuid \in DOMAIN tasks
    THEN LET t == _generate_build_task(self, metadata, uuid, matrix,
                                       feature_dictionary)
         IN  IF t.exc # NoException THEN Raise(t.exc)
             ELSE Return(dict_set(tasks, uuid, t.val))
    ELSE Return(tasks)

register_overwrite(self, tasks, metadata, uuid, matrix, feature_dictionary) ==
    LET t == _generate_build_task(self, metadata, uuid, matrix,
                                  feature_dictionary)
    IN  IF t.exc # NoException THEN Raise(t.exc)
        ELSE Return(dict_set(tasks, uuid, t.val))

register(self, tasks, metadata, uuid, matrix, feature_dictionary) ==
    IF uuid \notin DOMAIN tasks
    THEN LET t == _generate_build_task(self, metadata, uuid, matrix,
                                       feature_dictionary)
         IN  IF t.exc # NoException THEN Raise(t.exc)
             ELSE Return(dict_set(tasks, uuid, t.val))
    ELSE Return(tasks)

\* the combinations the current call iterates over
combinations ==
    product(planner.label_names, planner.label_types, planner.states,
            args.feature_dictionaries)

\* the content of a list of heap objects
contents(h, addresses) == [n \in 1..Len(addresses) |-> h[addresses[n]]]

-----------------------------------------------------------------------------
(* Inputs *)

TrainWindow ==
    [k \in {"first_as_of_time", "matrix_info_end_time", "as_of_times",
            "training_as_of_date_frequency", "training_label_timespan"} |->
        CASE k = "first_as_of_time" -> "2015-01-01"
          [] k = "matrix_info_end_time" -> "2015-06-01"
          [] k = "as_of_times" -> <<"2015-01-01">>
          [] k = "training_as_of_date_frequency" -> "1d"
          [] k = "training_label_timespan" -> "6m"]

TestWindow ==
    [k \in {"first_as_of_time", "matrix_info_end_time", "as_of_times",
            "test_as_of_date_frequency", "test_label_timespan"} |->
        CASE k = "first_as_of_time" -> "2015-06-01"
          [] k = "matrix_info_end_time" -> "2015-12-01"
          [] k = "as_of_times" -> <<"2015-06-01", "2015-09-01">>
          [] k = "test_as_of_date_frequency" -> "3m"
          [] k = "test_label_timespan" -> "3m"]

restrict(d, keys) == [k \in (DOMAIN d) \cap keys |-> d[k]]
without(d, k) == restrict(d, (DOMAIN d) \ {k})

TrainWindows ==
    { TrainWindow,
      dict_set(TrainWindow, "as_of_times", <<"2015-01-01", "2015-03-01">>) }

SeqsUpTo(S, n) == UNION { [1..m -> S] : m \in 0..n }

\* successive test windows start at successive dates
TestStarts == <<"2015-06-01", "2015-09-01", "2015-12-01", "2016-03-01">>

\* a list of t distinct test windows
TestList(t) ==
    [k \in 1..t |-> dict_set(TestWindow, "first_as_of_time", TestStarts[k])]

rotate(s, r) == [k \in 1..Len(s) |-> s[((k - 1 + r) % Len(s)) + 1]]

\* the n-th matrix set has train window tr[n] and the t test windows, in an
\* order that differs from set to set
WellFormedList(tr, t) ==
    [n \in 1..Len(tr) |->
        [train_matrix |-> tr[n], test_matrices |-> rotate(TestList(t), n - 1)]]

RequiredKeys == {"first_as_of_time", "matrix_info_end_time", "as_of_times"}

\* window w (0: train window, k: k-th test window) of the last definition of
\* a list loses one key
remove_key(list, w, key) ==
    LET last == list[Len(list)]
        damaged ==
            IF w = 0
            THEN [last EXCEPT !["train_matrix"] = without(@, key)]
            ELSE [last EXCEPT !["test_matrices"][w] = without(@, key)]
    IN  [list EXCEPT ![Len(list)] = damaged]

WellFormedLists ==
    { WellFormedList(tr, t) :
        tr \in SeqsUpTo(TrainWindows, MaxSets), t \in 0..MaxTests }

\* lists of equal train windows and one test window each, in which the train
\* window or the test window of the last definition lacks a subscripted key
MalformedLists ==
    { remove_key(WellFormedList([n \in 1..m |-> TrainWindow], 1), w, key) :
        m \in 1..MaxSets, w \in {0, 1}, key \in RequiredKeys }

MatrixSetLists == WellFormedLists \cup MalformedLists

FeatureDictionaryA == << <<"tableA", <<"f1", "f2">> >>, <<"tableB", <<>> >> >>
FeatureDictionaryB == << <<"tableA", <<"f1">> >>, <<"tableB", <<"f2">> >> >>
FeatureDictionaryC == << <<"tableB", <<"f3">> >> >>

FeatureDictionaryLists ==
    { <<>>,
      <<FeatureDictionaryA, FeatureDictionaryB>>,
      <<FeatureDictionaryA, FeatureDictionaryC>> }

LabelNameLists == { <<>>, <<"outcome", "booking">> }
LabelTypeLists == { <<>>, <<"binary">> }
StateLists == { <<>>, <<"state_one", "state_two">> }

UserMetadatas ==
    { EmptyDict,
      [k \in {"as_of_times", "state"} |->
          IF k = "state" THEN "any" ELSE <<"2015-01-01">>] }

\* the windows and user metadata the metadata synthesis is exercised on
AllWindowFields ==
    [k \in {"first_as_of_time", "matrix_info_end_time", "as_of_times",
            "training_as_of_date_frequency", "test_as_of_date_frequency",
            "training_label_timespan", "test_label_timespan",
            "label_timespan", "matrix_type"} |->
        CASE k = "first_as_of_time" -> "2015-01-01"
          [] k = "matrix_info_end_time" -> "2015-06-01"
          [] k = "as_of_times" -> <<"2015-01-01">>
          [] k = "training_as_of_date_frequency" -> "1d"
          [] k = "test_as_of_date_frequency" -> "3m"
          [] k = "training_label_timespan" -> "6m"
          [] k = "test_label_timespan" -> "1y"
          [] k = "label_timespan" -> "window timespan"
          [] k = "matrix_type" -> "window type"]

MetaWindows == { restrict(AllWindowFields, K) : K \in SUBSET DOMAIN AllWindowFields }

MetaUserMetadatas ==
    { EmptyDict,
      [k \in {"label_timespan"} |-> "user timespan"],
      [k \in {"matrix_type", "training_label_timespan", "experiment"} |->
          CASE k = "matrix_type" -> "user type"
            [] k = "training_label_timespan" -> "user training timespan"
            [] k = "experiment" -> "user experiment"] }

NoMetaArgs == [called |-> FALSE]

-----------------------------------------------------------------------------
(* Initial states *)

InitCommon(user_metadatas, label_name_lists, label_type_lists, state_lists) ==
    /\ ctor_args \in
         [feature_start_time : {"2010-01-01"},
          label_names : label_name_lists,
          label_types : label_type_lists,
          states : state_lists,
          matrix_directory : {"matrices"},
          user_metadata : user_metadatas,
          cohort_name : {"default"}]
    /\ planner = Planner(ctor_args.feature_start_time, ctor_args.label_names,
                         ctor_args.label_types, ctor_args.states,
                         ctor_args.matrix_directory, ctor_args.user_metadata,
                         ctor_args.cohort_name)
    /\ updated_definitions = <<>>
    /\ build_tasks = EmptyDict
    /\ i = 0
    /\ c = 0
    /\ j = 0
    /\ matrix_set_clone = 0
    /\ test_uuids = <<>>
    /\ results = <<>>
    /\ calls = 0

Init ==
    /\ InitCommon(UserMetadatas, LabelNameLists, LabelTypeLists, StateLists)
    /\ \E sets \in MatrixSetLists :
         /\ heap = sets
         /\ args \in [matrix_set_definitions : {[n \in 1..Len(sets) |-> n]},
                      feature_dictionaries : FeatureDictionaryLists]
    \* one empty list empties the cross product: at most one of them is empty
    /\ Cardinality({ k \in 1..3 :
           <<ctor_args.label_names, ctor_args.label_types,
             args.feature_dictionaries>>[k] = <<>> }) <= 1
    /\ before = [matrix_set_definitions |-> <<>>, objects |-> <<>>]
    /\ pc = "idle"
    /\ meta_args = NoMetaArgs
    /\ meta_result = Return(None)

-----------------------------------------------------------------------------
(* Planner.generate_plans, one action per step of its loops *)

loop_vars == <<i, c, j, matrix_set_clone, test_uuids>>
fixed_vars == <<planner, ctor_args, args, meta_args, meta_result>>

\* lines 109-121: entry; the two accumulators start empty
generate_plans_stale_definitions ==
    /\ pc \in {"idle", "returned", "raised"}
    /\ calls < MaxCalls
    /\ calls' = calls + 1
    /\ before' = [matrix_set_definitions |-> args.matrix_set_definitions,
                  objects |-> contents(heap, args.matrix_set_definitions)]
    /\ build_tasks' = EmptyDict
    /\ i' = 1
    /\ pc' = "for_matrix_set"
    /\ UNCHANGED <<fixed_vars, heap, results, c, j, matrix_set_clone,
                   test_uuids, updated_definitions>>

generate_plans ==
    /\ pc \in {"idle", "returned", "raised"}
    /\ calls < MaxCalls
    /\ calls' = calls + 1
    /\ before' = [matrix_set_definitions |-> args.matrix_set_definitions,
                  objects |-> contents(heap, args.matrix_set_definitions)]
    /\ updated_definitions' = <<>>
    /\ build_tasks' = EmptyDict
    /\ i' = 1
    /\ pc' = "for_matrix_set"
    /\ UNCHANGED <<fixed_vars, heap, results, c, j, matrix_set_clone,
                   test_uuids>>

\* lines 122-132: the next matrix set
for_matrix_set ==
    /\ pc = "for_matrix_set"
    /\ i <= Len(args.matrix_set_definitions)
    /\ c' = 1
    /\ pc' = "for_combination"
    /\ UNCHANGED <<fixed_vars, heap, before, results, calls, i, j,
                   matrix_set_clone, test_uuids, updated_definitions,
                   build_tasks>>

\* lines 200-206: all matrix sets done
return ==
    /\ pc = "for_matrix_set"
    /\ i > Len(args.matrix_set_definitions)
    /\ results' = Append(results,
           [updated_definitions |-> contents(heap, updated_definitions),
            build_tasks |-> build_tasks])
    /\ pc' = "returned"
    /\ UNCHANGED <<fixed_vars, heap, before, calls, loop_vars,
                   updated_definitions, build_tasks>>

\* lines 133-170: the next combination: clone, train metadata, train task
for_combination ==
    /\ pc = "for_combination"
    /\ c <= Len(combinations)
    /\ LET matrix_set == args.matrix_set_definitions[i]
           train_matrix == heap[matrix_set]["train_matrix"]
           combination == combinations[c]
           label_name == combination[1]
           label_type == combination[2]
           state == combination[3]
           feature_dictionary == combination[4]
           copied == deepcopy(heap, matrix_set)
           train_metadata == _make_metadata(planner, train_matrix,
                                 feature_dictionary, label_name, label_type,
                                 state, "train")
           train_uuid == generate_uuid(train_metadata.val)
           registered == register(planner, build_tasks, train_metadata.val,
                                  train_uuid, train_matrix, feature_dictionary)
       IN  /\ matrix_set_clone' = copied.address
           /\ IF train_metadata.exc # NoException
              THEN /\ pc' = "raised"
                   /\ heap' = copied.heap
                   /\ UNCHANGED <<build_tasks, test_uuids, j>>
              ELSE IF registered.exc # NoException
              THEN /\ pc' = "raised"
                   /\ heap' = copied.heap
                   /\ UNCHANGED <<build_tasks, test_uuids, j>>
              ELSE /\ build_tasks' = registered.val
                   /\ heap' = [copied.heap EXCEPT ![copied.address] =
                                   dict_set(@, "train_uuid", train_uuid)]
                   /\ test_uuids' = <<>>
                   /\ j' = 1
                   /\ pc' = "for_test_matrix"
    /\ UNCHANGED <<fixed_vars, before, results, calls, i, c,
                   updated_definitions>>

\* the cross product is exhausted: on to the next matrix set
end_combinations ==
    /\ pc = "for_combination"
    /\ c > Len(combinations)
    /\ i' = i + 1
    /\ pc' = "for_matrix_set"
    /\ UNCHANGED <<fixed_vars, heap, before, results, calls, c, j,
                   matrix_set_clone, test_uuids, updated_definitions,
                   build_tasks>>

\* lines 171-196: the next test matrix of the clone
for_test_matrix ==
    /\ pc = "for_test_matrix"
    /\ j <= Len(heap[matrix_set_clone]["test_matrices"])
    /\ LET test_matrix == heap[matrix_set_clone]["test_matrices"][j]
           combination == combinations[c]
           label_name == combination[1]
           label_type == combination[2]
           state == combination[3]
           feature_dictionary == combination[4]
           test_metadata == _make_metadata(planner, test_matrix,
                                feature_dictionary, label_name, label_type,
                                state, "test")
           test_uuid == generate_uuid(test_metadata.val)
           registered == register(planner, build_tasks, test_metadata.val,
                                  test_uuid, test_matrix, feature_dictionary)
       IN  IF test_metadata.exc # NoException
           THEN /\ pc' = "raised"
                /\ UNCHANGED <<build_tasks, test_uuids, j>>
           ELSE IF registered.exc # NoException
           THEN /\ pc' = "raised"
                /\ UNCHANGED <<build_tasks, test_uuids, j>>
           ELSE /\ build_tasks' = registered.val
                /\ test_uuids' = list_append(test_uuids, test_uuid)
                /\ j' = j + 1
                /\ pc' = "for_test_matrix"
    /\ UNCHANGED <<fixed_vars, heap, before, results, calls, i, c,
                   matrix_set_clone, updated_definitions>>

\* lines 197-198: the clone is complete
append_clone ==
    /\ pc = "for_test_matrix"
    /\ j > Len(heap[matrix_set_clone]["test_matrices"])
    /\ heap' = [heap EXCEPT ![matrix_set_clone] =
                    dict_set(@, "test_uuids", test_uuids)]
    /\ updated_definitions' = list_append(updated_definitions, matrix_set_clone)
    /\ c' = c + 1
    /\ pc' = "for_combination"
    /\ UNCHANGED <<fixed_vars, before, results, calls, i, j,
                   matrix_set_clone, test_uuids, build_tasks>>

Next ==
    \/ generate_plans
    \/ for_matrix_set
    \/ return
    \/ for_combination
    \/ end_combinations
    \/ for_test_matrix
    \/ append_clone

Spec == Init /\ [][Next]_vars

-----------------------------------------------------------------------------
(* Metadata synthesis on its own: one call of _make_metadata per behaviour *)

InitMeta ==
    /\ InitCommon(MetaUserMetadatas, {<<"outcome">>}, {<<"binary">>}, {<<>>})
    /\ heap = <<>>
    /\ args = [matrix_set_definitions |-> <<>>, feature_dictionaries |-> <<>>]
    /\ before = [matrix_set_definitions |-> <<>>, objects |-> <<>>]
    /\ pc = "meta"
    /\ meta_args \in [matrix_definition : MetaWindows,
                      feature_dictionary : {FeatureDictionaryA},
                      label_name : {"outcome"},
                      label_type : {"binary"},
                      state : {DEFAULT_ACTIVE_STATE},
                      matrix_type : {"train", "test"}]
    /\ meta_result = Return(None)

make_metadata_call ==
    /\ pc = "meta"
    /\ meta_result' = _make_metadata(planner, meta_args.matrix_definition,
                          meta_args.feature_dictionary, meta_args.label_name,
                          meta_args.label_type, meta_args.state,
                          meta_args.matrix_type)
    /\ pc' = "meta_done"
    /\ UNCHANGED <<planner, ctor_args, args, heap, before,
                   updated_definitions, build_tasks, loop_vars, results,
                   calls, meta_args>>

NextMeta == make_metadata_call

SpecMeta == InitMeta /\ [][NextMeta]_vars

-----------------------------------------------------------------------------
(* Vocabulary of the properties *)

\* a record was synthesized
Synthesized == pc = "meta_done" /\ meta_result.exc = NoException
Window == meta_args.matrix_definition
Record == meta_result.val

Has(d, k) == k \in DOMAIN d

\* the configured lists, the state list as the constructor leaves it
LabelNames == ctor_args.label_names
LabelTypes == ctor_args.label_types
States == IF Len(ctor_args.states) = 0 THEN <<"active">> ELSE ctor_args.states
FeatureDictionaries == args.feature_dictionaries

NSets == Len(args.matrix_set_definitions)
NLabelNames == Len(LabelNames)
NLabelTypes == Len(LabelTypes)
NStates == Len(States)
NFeatureDictionaries == Len(FeatureDictionaries)

\* <<matrix set, label name, label type, state, feature dictionary>> indices
Expansions ==
    (1..NSets) \X (1..NLabelNames) \X (1..NLabelTypes) \X (1..NStates)
        \X (1..NFeatureDictionaries)

\* where an expansion lands in the output: matrix set first, then label name
\* outermost and feature dictionary innermost
Position(e) ==
    ((((e[1] - 1) * NLabelNames + (e[2] - 1)) * NLabelTypes + (e[3] - 1))
        * NStates + (e[4] - 1)) * NFeatureDictionaries + e[5]

\* the n-th input definition as it was handed to the call
InputDefinition(n) == before.objects[n]

OutputClone(pos) == heap[updated_definitions[pos]]

\* the metadata of window w of a clone (0: train window, k: k-th test window)
\* under the combination of expansion e
ExpectedMetadata(clone, e, w) ==
    IF w = 0
    THEN _make_metadata(planner, clone["train_matrix"],
                        FeatureDictionaries[e[5]], LabelNames[e[2]],
                        LabelTypes[e[3]], States[e[4]], "train").val
    ELSE _make_metadata(planner, clone["test_matrices"][w],
                        FeatureDictionaries[e[5]], LabelNames[e[2]],
                        LabelTypes[e[3]], States[e[4]], "test").val

\* the identifier a clone carries for window w
CarriedUuid(clone, w) ==
    IF w = 0 THEN clone["train_uuid"] ELSE clone["test_uuids"][w]

WindowsOf(clone) == 0..Len(clone["test_matrices"])

InCall == pc \in {"for_matrix_set", "for_combination", "for_test_matrix"}

TasksWithMetadata(metadata) ==
    { u \in DOMAIN build_tasks : build_tasks[u]["matrix_metadata"] = metadata }

-----------------------------------------------------------------------------
(* Properties *)

\* C1: when generate_plans has returned, any two distinct (output clone,
\* window) places whose synthesized metadata are equal field for field carry
\* the same identifier, and the registry holds exactly one task with that
\* metadata.
C1_DedupCorrectness ==
    pc = "returned" =>
        LET Places ==
                UNION { { <<e, w>> : w \in WindowsOf(OutputClone(Position(e))) } :
                        e \in Expansions }
            \* tabulated once (@@ yields an explicit function)
            Metadata ==
                [p \in Places |->
                    ExpectedMetadata(OutputClone(Position(p[1])), p[1], p[2])]
                    @@ <<>>
            Carried ==
                [p \in Places |->
                    CarriedUuid(OutputClone(Position(p[1])), p[2])]
            Tasks ==
                [p \in Places |-> Cardinality(TasksWithMetadata(Metadata[p]))]
                    @@ <<>>
        IN  \A p1 \in Places, p2 \in Places :
                (p1 # p2 /\ Metadata[p1] = Metadata[p2]) =>
                    /\ Carried[p1] = Carried[p2]
                    /\ Tasks[p1] = 1

\* two clones of different matrix sets, under different feature dictionaries,
\* share one train task
C1_Witness ==
    /\ pc = "returned"
    /\ \E e1 \in Expansions, e2 \in Expansions :
          /\ e1[1] # e2[1]
          /\ FeatureDictionaries[e1[5]] # FeatureDictionaries[e2[5]]
          /\ ExpectedMetadata(OutputClone(Position(e1)), e1, 0)
               = ExpectedMetadata(OutputClone(Position(e2)), e2, 0)
          /\ OutputClone(Position(e1))["train_uuid"]
               = OutputClone(Position(e2))["train_uuid"]
          /\ OutputClone(Position(e1))["train_uuid"] \in DOMAIN build_tasks

\* C2: every output clone sits at the position of one expansion, and for each
\* of its windows the identifier it carries is the identifier of the metadata
\* synthesized from that window, role and combination; that identifier is a
\* key of the registry and the task under it holds that metadata.
C2_CorrectIdentifiers ==
    pc = "returned" =>
        /\ \A pos \in 1..Len(updated_definitions) :
               \E e \in Expansions : Position(e) = pos
        /\ \A e \in Expansions :
               Position(e) <= Len(updated_definitions) =>
                   LET clone == OutputClone(Position(e))
                   IN  /\ Len(clone["test_uuids"]) = Len(clone["test_matrices"])
                       /\ \A w \in WindowsOf(clone) :
                           LET m == ExpectedMetadata(clone, e, w)
                               u == CarriedUuid(clone, w)
                           IN  /\ u = generate_uuid(m)
                               /\ u \in DOMAIN build_tasks
                               /\ build_tasks[u]["matrix_metadata"] = m

\* two returned clones of different matrix sets under the second label name
\* and the second feature dictionary hold the same two test windows in
\* opposite orders, and so the same two distinct identifiers in opposite
\* orders
C2_Witness ==
    /\ pc = "returned"
    /\ \E e1 \in Expansions, e2 \in Expansions :
          LET clone1 == OutputClone(Position(e1))
              clone2 == OutputClone(Position(e2))
          IN  /\ e1[1] # e2[1]
              /\ e1[2] = 2 /\ e1[5] = 2
              /\ <<e1[2], e1[3], e1[4], e1[5]>> = <<e2[2], e2[3], e2[4], e2[5]>>
              /\ LabelNames[1] # LabelNames[2]
              /\ Len(clone1["test_uuids"]) = 2
              /\ Len(clone2["test_uuids"]) = 2
              /\ clone1["test_matrices"][1] = clone2["test_matrices"][2]
              /\ clone1["test_matrices"][2] = clone2["test_matrices"][1]
              /\ clone1["test_uuids"][1] # clone1["test_uuids"][2]
              /\ clone1["test_uuids"][1] = clone2["test_uuids"][2]
              /\ clone1["test_uuids"][2] = clone2["test_uuids"][1]
              /\ clone1["test_uuids"][2] \in DOMAIN build_tasks

\* C3: the returned list has N x L x T x S x F entries, S counted after the
\* constructor's default; the clone of expansion (n, label name, label type,
\* state, feature dictionary) sits at the position given by matrix set first
\* and feature dictionary innermost; its test_uuids is as long as the input's
\* test-window list; with no label name, label type or feature dictionary the
\* list and the registry are empty.
C3_Cardinality ==
    pc = "returned" =>
        /\ Len(updated_definitions)
             = NSets * NLabelNames * NLabelTypes * NStates * NFeatureDictionaries
        /\ \A e \in Expansions :
               LET clone == OutputClone(Position(e))
                   input == InputDefinition(e[1])
               IN  /\ clone["train_matrix"] = input["train_matrix"]
                   /\ clone["test_matrices"] = input["test_matrices"]
                   /\ Len(clone["test_uuids"]) = Len(input["test_matrices"])
                   /\ clone["train_uuid"]
                        = generate_uuid(ExpectedMetadata(input, e, 0))
        /\ (NLabelNames = 0 \/ NLabelTypes = 0 \/ NFeatureDictionaries = 0) =>
               /\ updated_definitions = <<>>
               /\ build_tasks = EmptyDict

\* two matrix sets, two distinct label names, the default state, two feature
\* dictionaries: eight clones
C3_Witness ==
    /\ pc = "returned"
    /\ NSets = 2
    /\ NLabelNames = 2 /\ LabelNames[1] # LabelNames[2]
    /\ ctor_args.states = <<>>
    /\ planner.states = <<DEFAULT_ACTIVE_STATE>>
    /\ Len(updated_definitions) = 8

\* C4: from the start of a call on, the input list and every definition in
\* it equal what they were when the call started, and no input definition has
\* a train_uuid or test_uuids field.
C4_NonMutation ==
    calls > 0 =>
        /\ args.matrix_set_definitions = before.matrix_set_definitions
        /\ contents(heap, args.matrix_set_definitions) = before.objects
        /\ \A n \in 1..NSets :
               DOMAIN heap[args.matrix_set_definitions[n]]
                   = {"train_matrix", "test_matrices"}

\* a call returned annotated clones
C4_Witness ==
    /\ pc = "returned"
    /\ Len(updated_definitions) >= 2
    /\ \A pos \in 1..Len(updated_definitions) :
          /\ Has(OutputClone(pos), "train_uuid")
          /\ Has(OutputClone(pos), "test_uuids")
          /\ updated_definitions[pos] \notin
                 { args.matrix_set_definitions[n] : n \in 1..NSets }

\* C5: every key of the record has the user-metadata value if user metadata
\* has the key, else the window's value if the window has the key, else the
\* computed value.
C5_MergePrecedence ==
    Synthesized =>
        LET computed == computed_fields(planner, Window,
                            meta_args.feature_dictionary, meta_args.label_name,
                            meta_args.label_type, meta_args.state,
                            meta_args.matrix_type)
            user == planner.user_metadata
        IN  /\ DOMAIN Record
                 = (DOMAIN computed) \cup (DOMAIN Window) \cup (DOMAIN user)
            /\ \A k \in DOMAIN Record :
                   Record[k] = IF Has(user, k) THEN user[k]
                               ELSE IF Has(Window, k) THEN Window[k]
                               ELSE computed[k]

\* a key of both the window and the user metadata, with different values
C5_Witness ==
    /\ Synthesized
    /\ \E k \in (DOMAIN Window) \cap (DOMAIN planner.user_metadata) :
          /\ Window[k] # planner.user_metadata[k]
          /\ Record[k] = planner.user_metadata[k]
    /\ Has(Window, "label_timespan")
    /\ ~Has(planner.user_metadata, "label_timespan")
    /\ Record["label_timespan"] = Window["label_timespan"]

\* C6: unless the window or the user metadata carries a label_timespan key of
\* its own, the record's label_timespan is the window's test_label_timespan
\* if present, else its training_label_timespan if present, else "0 days",
\* for role train and role test alike.
C6_LabelTimespanFallback ==
    (/\ Synthesized
     /\ ~Has(Window, "label_timespan")
     /\ ~Has(planner.user_metadata, "label_timespan")) =>
        Record["label_timespan"] =
            IF Has(Window, "test_label_timespan")
                THEN Window["test_label_timespan"]
            ELSE IF Has(Window, "training_label_timespan")
                THEN Window["training_label_timespan"]
            ELSE "0 days"

\* a train-role record from a window with both timespan fields took the test
\* one
C6_Witness ==
    /\ Synthesized
    /\ meta_args.matrix_type = "train"
    /\ Has(Window, "test_label_timespan")
    /\ Has(Window, "training_label_timespan")
    /\ Window["test_label_timespan"] # Window["training_label_timespan"]
    /\ ~Has(Window, "label_timespan")
    /\ ~Has(planner.user_metadata, "label_timespan")
    /\ Record["label_timespan"] = Window["test_label_timespan"]

\* C7 as stated: the record's as_of_date_frequency is the field of the
\* record's role when the window has it (training_as_of_date_frequency for
\* role train, test_as_of_date_frequency otherwise), else the other field,
\* else None.
C7_FrequencyByRole ==
    Synthesized =>
        Record["as_of_date_frequency"] =
            IF meta_args.matrix_type = "train"
            THEN IF Has(Window, "training_as_of_date_frequency")
                     THEN Window["training_as_of_date_frequency"]
                 ELSE IF Has(Window, "test_as_of_date_frequency")
                     THEN Window["test_as_of_date_frequency"]
                 ELSE None
            ELSE IF Has(Window, "test_as_of_date_frequency")
                     THEN Window["test_as_of_date_frequency"]
                 ELSE IF Has(Window, "training_as_of_date_frequency")
                     THEN Window["training_as_of_date_frequency"]
                 ELSE None

\* C7 amended: whatever the role, the record's as_of_date_frequency is the
\* window's training_as_of_date_frequency if present, else its
\* test_as_of_date_frequency if present, else None.
C7_FrequencyTrainingFirst ==
    Synthesized =>
        /\ Has(Record, "as_of_date_frequency")
        /\ Record["as_of_date_frequency"] =
               IF Has(Window, "training_as_of_date_frequency")
                   THEN Window["training_as_of_date_frequency"]
               ELSE IF Has(Window, "test_as_of_date_frequency")
                   THEN Window["test_as_of_date_frequency"]
               ELSE None

\* a test-role record from a window with both frequency fields took the
\* training one
C7_Witness ==
    /\ Synthesized
    /\ meta_args.matrix_type = "test"
    /\ Has(Window, "training_as_of_date_frequency")
    /\ Has(Window, "test_as_of_date_frequency")
    /\ Window["training_as_of_date_frequency"]
         # Window["test_as_of_date_frequency"]
    /\ Record["as_of_date_frequency"] = Window["training_as_of_date_frequency"]

\* C8 as stated: generate_plans never raises, whatever fields its windows
\* lack.
C8_NeverRaises == pc # "raised"

\* the metadata the current combination gives a window
StepMetadata(window, matrix_type) ==
    LET combination == combinations[c]
    IN  _make_metadata(planner, window, combination[4], combination[1],
                       combination[2], combination[3], matrix_type).val

\* the step that processes a window raises
RaisesOn(window, matrix_type) ==
    \/ ~Has(window, "first_as_of_time")
    \/ ~Has(window, "matrix_info_end_time")
    \/ /\ ~Has(window, "as_of_times")
       /\ generate_uuid(StepMetadata(window, matrix_type))
              \notin DOMAIN build_tasks

TrainStep == pc = "for_combination" /\ c <= Len(combinations)

TestStep ==
    /\ pc = "for_test_matrix"
    /\ j <= Len(heap[matrix_set_clone]["test_matrices"])

\* C8 amended: the step that processes a window (the train window of the
\* current definition, or the next test window of its clone, under the
\* current combination) raises exactly when the window lacks
\* first_as_of_time or matrix_info_end_time, or lacks as_of_times while the
\* identifier of its metadata is not yet in the registry; no other step
\* raises, so a call with an empty cross product returns whatever its
\* windows lack, and the frequency and timespan fields may be missing.
C8_RaisesOnRequiredFields ==
    [][/\ TrainStep =>
            (pc' = "raised" <=>
                RaisesOn(heap[args.matrix_set_definitions[i]]["train_matrix"],
                         "train"))
       /\ TestStep =>
            (pc' = "raised" <=>
                RaisesOn(heap[matrix_set_clone]["test_matrices"][j], "test"))
       /\ (~TrainStep /\ ~TestStep) => pc' # "raised"]_vars

\* a test window without as_of_times was processed without raising: its
\* identifier was in the registry already and is in the clone's list
C8_Witness ==
    /\ pc = "for_test_matrix"
    /\ j > 1
    /\ ~Has(heap[matrix_set_clone]["test_matrices"][j - 1], "as_of_times")
    /\ Len(test_uuids) = j - 1
    /\ test_uuids[j - 1] \in DOMAIN build_tasks
    /\ ~Has(heap[matrix_set_clone]["train_matrix"], "test_label_timespan")

\* C9: all calls of a behaviour return the same registry and the same
\* annotated definitions, and each call starts with both accumulators empty.
C9_Determinism ==
    /\ \A m \in 1..Len(results), n \in 1..Len(results) :
           results[m] = results[n]
    /\ (pc = "for_matrix_set" /\ i = 1) =>
           /\ build_tasks = EmptyDict
           /\ updated_definitions = <<>>

\* two calls returned, with tasks and clones
C9_Witness ==
    /\ Len(results) = 2
    /\ results[2].build_tasks # EmptyDict
    /\ Len(results[2].updated_definitions) >= 2

\* C10: within a call, a step neither removes nor changes a registry entry,
\* and adds at most one.
C10_RegistryOnlyGrows ==
    [][InCall =>
          /\ \A u \in DOMAIN build_tasks :
                 /\ u \in DOMAIN build_tasks'
                 /\ build_tasks'[u] = build_tasks[u]
          /\ Cardinality(DOMAIN build_tasks')
                 <= Cardinality(DOMAIN build_tasks) + 1]_vars

\* the train step of a combination found its identifier already present,
\* under another feature dictionary, and the first-seen task is still there
C10_Witness ==
    /\ pc = "for_test_matrix"
    /\ j = 1
    /\ Has(heap[matrix_set_clone], "train_uuid")
    /\ heap[matrix_set_clone]["train_uuid"] \in DOMAIN build_tasks
    /\ build_tasks[heap[matrix_set_clone]["train_uuid"]]["feature_dictionary"]
         # combinations[c][4]

====
